---------------------------- MODULE Spec2Model ----------------------------
(***************************************************************************)
(* Diffusion-for-image-treatment: border extension, finite-difference      *)
(* stencil matrices, field update operators and the RK4 integrator of      *)
(* MA322_BE_lib.py.                                                        *)
(*                                                                         *)
(* Numbers.  The program computes on IEEE doubles.  The model computes on  *)
(* exact rationals n/d extended with the three non-finite doubles: a       *)
(* number is a record [n, d] with d > 0 and gcd(n, d) = 1 when finite, and *)
(* d = 0 for +inf (n = 1), -inf (n = -1) and nan (n = 0).  Rounding of     *)
(* finite results is not modelled, except for the square root, which is    *)
(* rounded down to a multiple of 1/SqrtScale.                              *)
(*                                                                         *)
(* Arrays.  A 2-D array is a record [err, r, c, v]: r rows, c columns and  *)
(* v[i][j] its cells, indexed from 0 as in the source; err is "none", or   *)
(* the name of the exception numpy raised instead of building the array.   *)
(* An image is [l, c, d, ch] with ch[k] the 2-D array U[:, :, k].          *)
(***************************************************************************)
EXTENDS Integers, Sequences, FiniteSets, TLC

VARIABLES
    fn,        \* the library function called
    argN,      \* the call's integer argument (builders)
    argU,      \* the call's field argument (completion, operators)
    argT,      \* the call's time argument (operators)
    ret,       \* the outcome of the call or of the run: [status, val]
    seed,      \* outcomes of the process-wide random generator, in draw order
    pc,        \* position in RKimage
    op,        \* the operator passed to RKimage
    U0,        \* RKimage's input image
    t0,        \* RKimage's t0
    h,         \* RKimage's h
    nbiter,    \* RKimage's nbiter
    k,         \* channel loop variable
    i,         \* iteration loop variable (iterations done on channel k)
    Ucouchek,  \* the channel's current field
    k1, k2, k3, k4,   \* the four RK stages
    Us,        \* the output image
    calls,     \* operator calls made on channel k so far
    draws,     \* random.randint calls made so far
    Uiter      \* the field Ucouchek held when the current iteration began

fnvars == <<fn, argN, argU, argT>>
rkvars == <<pc, op, U0, t0, h, nbiter, k, i, Ucouchek, k1, k2, k3, k4, Us, calls, draws, Uiter>>
vars == <<fn, argN, argU, argT, ret, seed, pc, op, U0, t0, h, nbiter, k, i, Ucouchek,
          k1, k2, k3, k4, Us, calls, draws, Uiter>>

---------------------------------------------------------------------------
\* Bounds of the model.
MaxDim == 2        \* fields of single calls have 1..MaxDim rows and columns
MaxN == 3          \* builders are called with n in -2..MaxN
MaxIter == 2       \* nbiter ranges over -1..MaxIter
RandPeriod == 2    \* the generator's outcomes repeat with this period
SqrtScale == 16    \* square roots are rounded down to multiples of 1/SqrtScale

---------------------------------------------------------------------------
\* Extended rational arithmetic.

\* F applied to the value of x.  TLC re-evaluates an operator's argument at each
\* use of the parameter wherever it cannot keep the value (inside ENABLED, which
\* fairness needs); a bound variable holds the value itself.
Bind(x, F(_)) == CHOOSE y \in {F(z) : z \in {x}} : TRUE

Abs(x) == IF x < 0 THEN -x ELSE x
Sgn(x) == IF x < 0 THEN -1 ELSE IF x > 0 THEN 1 ELSE 0

RECURSIVE GCD(_, _)
GCD(a, b) ==
    Bind(<<a, b>>, LAMBDA p : IF p[2] = 0 THEN p[1] ELSE GCD(p[2], p[1] % p[2]))

\* The number n/d, normalised.
Q(n, d) ==
    Bind(<<n, d>>, LAMBDA p :
        IF p[2] = 0 THEN [n |-> Sgn(p[1]), d |-> 0]
        ELSE Bind(GCD(Abs(p[1]), Abs(p[2])), LAMBDA g :
                 [n |-> (Sgn(p[2]) * p[1]) \div g, d |-> Abs(p[2]) \div g]))

Z(n) == [n |-> n, d |-> 1]
NaN == [n |-> 0, d |-> 0]
PosInf == [n |-> 1, d |-> 0]
IsFinite(x) == x.d # 0

\* a + b: inf + -inf and anything with nan give nan.
Add(a, b) ==
    Bind(<<a, b>>, LAMBDA p :
        IF p[1].d = 0 /\ p[2].d = 0 THEN (IF p[1].n = p[2].n THEN p[1] ELSE NaN)
        ELSE IF p[1].d = 0 THEN p[1]
        ELSE IF p[2].d = 0 THEN p[2]
        ELSE IF p[1].d = 1 /\ p[2].d = 1 THEN [n |-> p[1].n + p[2].n, d |-> 1]
        ELSE Bind(GCD(p[1].d, p[2].d), LAMBDA g :
                 Q(p[1].n * (p[2].d \div g) + p[2].n * (p[1].d \div g),
                   (p[1].d \div g) * p[2].d)))

\* a * b: inf * 0 and anything with nan give nan.
Mul(a, b) ==
    Bind(<<a, b>>, LAMBDA p :
        IF p[1].d = 0 \/ p[2].d = 0 THEN [n |-> Sgn(p[1].n) * Sgn(p[2].n), d |-> 0]
        ELSE IF p[1].d = 1 /\ p[2].d = 1 THEN [n |-> p[1].n * p[2].n, d |-> 1]
        ELSE Bind(<<GCD(Abs(p[1].n), p[2].d), GCD(Abs(p[2].n), p[1].d)>>, LAMBDA g :
                 Q((p[1].n \div g[1]) * (p[2].n \div g[2]),
                   (p[1].d \div g[2]) * (p[2].d \div g[1]))))

\* a / b for a finite b # 0.
Div(a, b) == Mul(a, Q(b.d * Sgn(b.n), Abs(b.n)))

Less(a, b) == a.n * b.d < b.n * a.d      \* finite a, b

RECURSIVE ISqrtFrom(_, _)
ISqrtFrom(m, r) ==
    Bind(<<m, r>>, LAMBDA p :
        IF (p[2] + 1) * (p[2] + 1) > p[1] THEN p[2] ELSE ISqrtFrom(p[1], p[2] + 1))

\* np.sqrt of x >= 0, rounded down to a multiple of 1/SqrtScale.
Sqrt(x) ==
    Bind(x, LAMBDA y :
        IF y.d = 0 THEN (IF y.n = 1 THEN y ELSE NaN)
        ELSE IF y.n < 0 THEN NaN
        ELSE Q(ISqrtFrom((y.n * SqrtScale * SqrtScale) \div y.d, 0), SqrtScale))

---------------------------------------------------------------------------
\* numpy arrays.

\* TLC evaluates a function constructor cell by cell on every use; merging it
\* with the empty function makes TLC compute every cell once.
Eager(fun) == fun @@ <<>>

Mat(r, c, F(_, _)) ==
    [err |-> "none", r |-> r, c |-> c,
     v |-> Eager([ii \in 0..(r - 1) |-> Eager([jj \in 0..(c - 1) |-> F(ii, jj)])])]

Raised(e) == [err |-> e, r |-> 0, c |-> 0, v |-> <<>>]

\* np.zeros((r, c)): numpy refuses a negative dimension.
NpZeros(r, c) ==
    IF r < 0 \/ c < 0 THEN Raised("ValueError")
    ELSE Mat(r, c, LAMBDA ii, jj : Z(0))

\* np.eye(r, c): ones on the main diagonal.
NpEye(r, c) ==
    IF r < 0 \/ c < 0 THEN Raised("ValueError")
    ELSE Mat(r, c, LAMBDA ii, jj : IF ii = jj THEN Z(1) ELSE Z(0))

\* U[ii, :] as a one-row array, U[:, jj] reshaped to a one-column array.
RowOf(U, ii) == Bind(<<U, ii>>, LAMBDA p : Mat(1, p[1].c, LAMBDA a, b : p[1].v[p[2]][b]))
ColOf(U, jj) == Bind(<<U, jj>>, LAMBDA p : Mat(p[1].r, 1, LAMBDA a, b : p[1].v[a][p[2]]))

VStack(A, B) ==
    Bind(<<A, B>>, LAMBDA p :
        Mat(p[1].r + p[2].r, p[2].c, LAMBDA a, b :
            IF a < p[1].r THEN p[1].v[a][b] ELSE p[2].v[a - p[1].r][b]))
HStack(A, B) ==
    Bind(<<A, B>>, LAMBDA p :
        Mat(p[1].r, p[1].c + p[2].c, LAMBDA a, b :
            IF b < p[1].c THEN p[1].v[a][b] ELSE p[2].v[a][b - p[1].c]))

\* A[r1:r2, c1:c2]
Slice(A, r1, r2, c1, c2) ==
    Bind(<<A, r1, r2, c1, c2>>, LAMBDA p :
        Mat(p[3] - p[2], p[5] - p[4], LAMBDA a, b : p[1].v[a + p[2]][b + p[4]]))

Transpose(A) == Bind(A, LAMBDA X : Mat(X.c, X.r, LAMBDA a, b : X.v[b][a]))

RECURSIVE Dot(_, _, _, _, _)
\* sum over m < n of A[a, m] * B[m, b]
Dot(A, B, a, b, n) ==
    IF n = 0 THEN Z(0)
    ELSE Add(Dot(A, B, a, b, n - 1), Mul(A.v[a][n - 1], B.v[n - 1][b]))

\* A @ B
MatMul(A, B) ==
    Bind(<<A, B>>, LAMBDA p : Mat(p[1].r, p[2].c, LAMBDA a, b : Dot(p[1], p[2], a, b, p[1].c)))

MatAdd(A, B) ==
    Bind(<<A, B>>, LAMBDA p :
        Mat(p[1].r, p[1].c, LAMBDA a, b : Add(p[1].v[a][b], p[2].v[a][b])))
Scale(x, A) ==
    Bind(<<x, A>>, LAMBDA p : Mat(p[2].r, p[2].c, LAMBDA a, b : Mul(p[1], p[2].v[a][b])))
MatDiv(A, x) ==
    Bind(<<A, x>>, LAMBDA p : Mat(p[1].r, p[1].c, LAMBDA a, b : Div(p[1].v[a][b], p[2])))
Pow2(A) == Bind(A, LAMBDA X : Mat(X.r, X.c, LAMBDA a, b : Mul(X.v[a][b], X.v[a][b])))
Pow4(A) == Pow2(Pow2(A))
MatSqrt(A) == Bind(A, LAMBDA X : Mat(X.r, X.c, LAMBDA a, b : Sqrt(X.v[a][b])))

---------------------------------------------------------------------------
\* Border extension.

\* completion with the last column taken one column short.
completionShort(U) ==
    LET l == U.r
        c == U.c
        Ut1 == VStack(RowOf(U, 0), U)
        Ut2 == VStack(Ut1, RowOf(U, l - 1))
        Ut3 == HStack(ColOf(Ut2, 0), Ut2)
        Ut4 == HStack(Ut3, ColOf(Ut3, c - 1))
    IN Ut4

completion(U) ==
    LET l == U.r
        c == U.c
        Ut1 == VStack(RowOf(U, 0), U)
        Ut2 == VStack(Ut1, RowOf(U, l - 1))
        Ut3 == HStack(ColOf(Ut2, 0), Ut2)
        Ut4 == HStack(Ut3, ColOf(Ut3, c))
    IN Ut4

---------------------------------------------------------------------------
\* Stencil matrix builders.

\* Dmat without the second off-diagonal.
DmatNoUpper(n) ==
    LET D == NpEye(n, n + 2)
    IN IF D.err # "none" THEN D
       ELSE Mat(n, n + 2, LAMBDA ii, jj : IF ii + 1 = jj THEN Z(-2) ELSE D.v[ii][jj])

Dmat(n) ==
    LET D == NpEye(n, n + 2)
    IN IF D.err # "none" THEN D
       ELSE Mat(n, n + 2, LAMBDA ii, jj :
                IF ii + 1 = jj THEN Z(-2)
                ELSE IF ii + 2 = jj THEN Z(1)
                ELSE D.v[ii][jj])

\* Dgrad refusing n <= 0 itself.
DgradChecked(n) ==
    LET D == NpZeros(n, n + 2)
    IN IF n <= 0 THEN Raised("InvalidDimension")
       ELSE Mat(n, n + 2, LAMBDA ii, jj :
                IF ii = jj THEN Q(-1, 2)
                ELSE IF ii + 2 = jj THEN Q(1, 2)
                ELSE D.v[ii][jj])

Dgrad(n) ==
    LET D == NpZeros(n, n + 2)
    IN IF D.err # "none" THEN D
       ELSE Mat(n, n + 2, LAMBDA ii, jj :
                IF ii = jj THEN Q(-1, 2)
                ELSE IF ii + 2 = jj THEN Q(1, 2)
                ELSE D.v[ii][jj])

Dluminosite(n) ==
    LET D == NpZeros(n, n + 2)
    IN IF D.err # "none" THEN D
       ELSE Mat(n, n + 2, LAMBDA ii, jj :
                IF ii = jj THEN Z(-5)
                ELSE IF ii + 2 = jj THEN Z(12)
                ELSE D.v[ii][jj])

\* The outcome of draw number q (from 0) of random.randint(-2, 2).
RandInt(sd, q) == sd[(q % Len(sd)) + 1]

\* The loops run j outermost: entry (i, j) is draw number j * n + i of the call,
\* and the call starts at draw q0 of the generator.
DPdeGalles(n, sd, q0) ==
    LET D == NpZeros(n, n + 2)
    IN IF D.err # "none" THEN D
       ELSE Mat(n, n + 2, LAMBDA ii, jj : Z(RandInt(sd, q0 + jj * n + ii)))

\* random.randint calls made by DPdeGalles(n).
DPdeGallesDraws(n) == IF n < 0 THEN 0 ELSE n * (n + 2)

---------------------------------------------------------------------------
\* Field update operators.

\* completion(U)[:, 1:c + 1] and completion(U)[1:l + 1, :]
PadRows(U) == Slice(completion(U), 0, U.r + 2, 1, U.c + 1)
PadCols(U) == Slice(completion(U), 1, U.r + 1, 0, U.c + 2)

\* f without the slice that brings the padded axis back to c columns.
fNoSlice(t, U) ==
    LET l == U.r
        c == U.c
    IN MatMul(Dmat(l), completion(U))

f(t, U) ==
    LET l == U.r
        c == U.c
    IN MatAdd(MatMul(Dmat(l), PadRows(U)), MatMul(PadCols(U), Transpose(Dmat(c))))

fgrad(t, U) ==
    LET l == U.r
        c == U.c
    IN MatSqrt(MatAdd(Pow2(MatMul(Dgrad(l), PadRows(U))),
                      Pow2(MatMul(PadCols(U), Transpose(Dgrad(c))))))

flaplace(t, U) ==
    LET l == U.r
        c == U.c
    IN MatSqrt(MatAdd(Pow2(MatMul(Dmat(l), PadRows(U))),
                      Pow2(MatMul(PadCols(U), Transpose(Dmat(c))))))

fluminosite(t, U) ==
    LET l == U.r
        c == U.c
    IN MatAdd(MatMul(Dluminosite(l), PadRows(U)),
              MatMul(PadCols(U), Transpose(Dluminosite(c))))

fmod2(t, U) ==
    LET l == U.r
        c == U.c
    IN Pow2(MatAdd(Pow4(MatMul(Dmat(l), PadRows(U))),
                   Pow4(MatMul(PadCols(U), Transpose(Dmat(c))))))

\* DPdeGalles(l) is built first, DPdeGalles(c) after it.
fPdeGalles(t, U, sd, q0) ==
    LET l == U.r
        c == U.c
    IN MatAdd(MatMul(DPdeGalles(l, sd, q0), PadRows(U)),
              MatMul(PadCols(U), Transpose(DPdeGalles(c, sd, q0 + DPdeGallesDraws(l)))))

fani(t, U) ==
    LET l == U.r
        c == U.c
    IN MatAdd(MatMul(Dmat(l), PadRows(U)), MatMul(PadCols(U), Transpose(Dmat(c))))

Operators == {"f", "fgrad", "flaplace", "fluminosite", "fmod2", "fPdeGalles", "fani"}
Builders == {"Dmat", "Dgrad", "Dluminosite", "DPdeGalles"}

\* The call o(t, U), the generator standing at draw q0.
Apply(o, t, U, sd, q0) ==
    Bind(U, LAMBDA X :
        CASE o = "f" -> f(t, X)
          [] o = "fgrad" -> fgrad(t, X)
          [] o = "flaplace" -> flaplace(t, X)
          [] o = "fluminosite" -> fluminosite(t, X)
          [] o = "fmod2" -> fmod2(t, X)
          [] o = "fPdeGalles" -> fPdeGalles(t, X, sd, q0)
          [] o = "fani" -> fani(t, X))

\* random.randint calls made by one call o(t, U).
OpDraws(o, U) ==
    IF o = "fPdeGalles" THEN DPdeGallesDraws(U.r) + DPdeGallesDraws(U.c) ELSE 0

\* The call b(n), the generator standing at draw q0.
Build(b, n, sd, q0) ==
    CASE b = "Dmat" -> Dmat(n)
      [] b = "Dgrad" -> Dgrad(n)
      [] b = "Dluminosite" -> Dluminosite(n)
      [] b = "DPdeGalles" -> DPdeGalles(n, sd, q0)

---------------------------------------------------------------------------
\* Inputs.

NbChannels == 3    \* for k in range(3)

NoArray == [err |-> "none", r |-> 0, c |-> 0, v |-> <<>>]
Pending == [status |-> "pending", val |-> NoArray]
Outcome(A) == [status |-> IF A.err = "none" THEN "returned" ELSE "raised", val |-> A]

Array(r, c, vv) == [err |-> "none", r |-> r, c |-> c, v |-> vv]
Image(chs) == [l |-> chs[0].r, c |-> chs[0].c, d |-> NbChannels, ch |-> chs]

\* Every field of at most MaxDim rows and columns over the cell values 0 and 1.
Fields ==
    UNION {{Array(r, c, vv) : vv \in [0..(r - 1) -> [0..(c - 1) -> {Z(0), Z(1)}]]} :
           <<r, c>> \in (1..MaxDim) \X (1..MaxDim)}

Times == {Z(0), Q(1, 2)}

\* The generator's outcomes: each draw is an integer of -2..2.
Seeds == [1..RandPeriod -> -2..2]
NoSeed == [q \in 1..RandPeriod |-> 0]
\* Generators that repeat one outcome.
ConstantSeeds == {sd \in Seeds : \A q \in 1..RandPeriod : sd[q] = sd[1]}
\* The integrator-operator pairs of MA322_BE_main.py, and RKimage with every operator.
Runs ==
    {<<"RKimage", o>> : o \in Operators}
        \cup {<<"RKimage_normgrad", "fgrad">>, <<"RKimage_normlaplace", "flaplace">>,
              <<"RKimage_luminosite", "fluminosite">>}

Row1(a) == [jj \in 0..0 |-> Z(a)]
Row2(a, b) == [jj \in 0..1 |-> IF jj = 0 THEN Z(a) ELSE Z(b)]
Rows1(x) == [ii \in 0..0 |-> x]
Rows2(x, y) == [ii \in 0..1 |-> IF ii = 0 THEN x ELSE y]

\* The channel fields of the images integrated, two of each shape.
ChannelFields(l, c) ==
    CASE l = 1 /\ c = 1 -> {Array(1, 1, Rows1(Row1(1))), Array(1, 1, Rows1(Row1(2)))}
      [] l = 1 /\ c = 2 -> {Array(1, 2, Rows1(Row2(0, 1))), Array(1, 2, Rows1(Row2(2, 1)))}
      [] l = 2 /\ c = 1 -> {Array(2, 1, Rows2(Row1(1), Row1(0))),
                            Array(2, 1, Rows2(Row1(1), Row1(2)))}
      [] l = 2 /\ c = 2 -> {Array(2, 2, Rows2(Row2(0, 1), Row2(1, 0))),
                            Array(2, 2, Rows2(Row2(1, 1), Row2(0, 0)))}

\* The images integrated: of each shape, those whose first and last channels differ.
Images ==
    UNION {{Image(chs) : chs \in {x \in [0..(NbChannels - 1) -> ChannelFields(l, c)] :
                                      x[0] # x[NbChannels - 1]}} :
           <<l, c>> \in (1..2) \X (1..2)}

Steps == {Q(1, 2), PosInf, NaN}

\* Exact arithmetic stays within TLC's integers for MaxIter iterations of the
\* linear diffusion stencil only; the other operators are integrated once.
IterCap(o) == IF o \in {"f", "fani"} THEN MaxIter ELSE 1

\* A field of 5 x 5 cells, p at (a0, b0) and q elsewhere.
PeakField(q, p, a0, b0) ==
    Mat(5, 5, LAMBDA a, b : IF a = a0 /\ b = b0 THEN Z(p) ELSE Z(q))

\* The cells of a 5 x 5 field that have four cells next to them.
InnerCells == (1..3) \X (1..3)

PeakImage(a0, b0) ==
    Image([kk \in 0..(NbChannels - 1) |->
              CASE kk = 0 -> PeakField(0, 100, a0, b0)
                [] kk = 1 -> PeakField(100, 200, a0, b0)
                [] OTHER -> PeakField(50, 250, a0, b0)])

PeakSteps == {Q(1, 100), Q(1, 10)}

---------------------------------------------------------------------------
\* Initial states.

IdleRun ==
    /\ pc = "idle"
    /\ op = "none"
    /\ U0 = NoArray
    /\ t0 = Z(0)
    /\ h = Z(0)
    /\ nbiter = 0
    /\ k = 0
    /\ i = 0
    /\ Ucouchek = NoArray
    /\ k1 = NoArray /\ k2 = NoArray /\ k3 = NoArray /\ k4 = NoArray
    /\ Us = NoArray
    /\ calls = 0
    /\ draws = 0
    /\ Uiter = NoArray

\* One call of completion, of a builder or of an operator.  A call of fPdeGalles
\* is made with a generator of one outcome.
FnInit ==
    /\ fn \in {"completion"} \cup Builders \cup Operators
    /\ argN \in IF fn \in Builders THEN -2..MaxN ELSE {0}
    /\ argU \in IF fn \in Builders THEN {NoArray} ELSE Fields
    /\ argT \in IF fn \in Operators THEN Times ELSE {Z(0)}
    /\ seed \in CASE fn = "DPdeGalles" -> Seeds
                [] fn = "fPdeGalles" -> ConstantSeeds
                [] OTHER -> {NoSeed}
    /\ ret = Pending
    /\ IdleRun

RunStart ==
    /\ argN = 0
    /\ argU = NoArray
    /\ argT = Z(0)
    /\ ret = Pending
    /\ pc = "start"
    /\ k = 0
    /\ i = 0
    /\ Ucouchek = NoArray
    /\ k1 = NoArray /\ k2 = NoArray /\ k3 = NoArray /\ k4 = NoArray
    /\ Us = NoArray
    /\ calls = 0
    /\ draws = 0
    /\ Uiter = NoArray

\* One run of an integrator.
Init ==
    /\ \E run \in Runs : fn = run[1] /\ op = run[2]
    /\ U0 \in Images
    /\ t0 = Z(0)
    /\ h \in Steps
    /\ nbiter \in -1..IterCap(op)
    /\ seed \in IF op = "fPdeGalles" THEN Seeds ELSE {NoSeed}
    /\ RunStart

\* One run of an integrator, for the check of termination: the runs of Init on the
\* images whose middle channel repeats the first, with a generator of one outcome.
LiveInit ==
    /\ \E run \in Runs : fn = run[1] /\ op = run[2]
    /\ U0 \in {im \in Images : im.ch[1] = im.ch[0]}
    /\ t0 = Z(0)
    /\ h \in Steps
    /\ nbiter \in -1..IterCap(op)
    /\ seed \in IF op = "fPdeGalles" THEN ConstantSeeds ELSE {NoSeed}
    /\ RunStart

\* One run of RKimage with the diffusion operator on an isolated maximum.
PeakInit ==
    /\ fn = "RKimage"
    /\ op = "f"
    /\ U0 \in {PeakImage(cell[1], cell[2]) : cell \in InnerCells}
    /\ t0 = Z(0)
    /\ h \in PeakSteps
    /\ nbiter = 1
    /\ seed = NoSeed
    /\ RunStart

---------------------------------------------------------------------------
\* Single calls.

CallCompletion ==
    /\ fn = "completion"
    /\ ret.status = "pending"
    /\ ret' = Outcome(completion(argU))
    /\ UNCHANGED <<fnvars, seed, rkvars>>

CallBuilder ==
    /\ fn \in Builders
    /\ ret.status = "pending"
    /\ ret' = Outcome(Build(fn, argN, seed, 0))
    /\ UNCHANGED <<fnvars, seed, rkvars>>

CallOperator ==
    /\ fn \in Operators
    /\ pc = "idle"
    /\ ret.status = "pending"
    /\ ret' = Outcome(Apply(fn, argT, argU, seed, 0))
    /\ UNCHANGED <<fnvars, seed, rkvars>>

FnNext == CallCompletion \/ CallBuilder \/ CallOperator

FnSpec == FnInit /\ [][FnNext]_vars

---------------------------------------------------------------------------
\* RKimage, RKimage_normgrad, RKimage_normlaplace and RKimage_luminosite: the
\* four bodies differ in the progress bar's caption only.

\* l, c, d = U0.shape; Us = np.zeros((l, c, d))
Enter ==
    /\ pc = "start"
    /\ Us' = [l |-> U0.l, c |-> U0.c, d |-> U0.d,
              ch |-> [kk \in 0..(U0.d - 1) |-> NpZeros(U0.l, U0.c)]]
    /\ k' = 0
    /\ pc' = "channel"
    /\ UNCHANGED <<fnvars, ret, seed, op, U0, t0, h, nbiter, i, Ucouchek,
                   k1, k2, k3, k4, calls, draws, Uiter>>

\* NextChannel with the field of the previous channel carried over.
NextChannelCarry ==
    /\ pc = "channel"
    /\ k < NbChannels
    /\ Ucouchek' = IF k = 0 THEN U0.ch[k] ELSE Ucouchek
    /\ i' = 0
    /\ calls' = 0
    /\ pc' = "iter"
    /\ UNCHANGED <<fnvars, ret, seed, op, U0, t0, h, nbiter, k,
                   k1, k2, k3, k4, Us, draws, Uiter>>

\* for k in range(3): Ucouchek = U0[:, :, k]
NextChannel ==
    /\ pc = "channel"
    /\ k < NbChannels
    /\ Ucouchek' = U0.ch[k]
    /\ i' = 0
    /\ calls' = 0
    /\ pc' = "iter"
    /\ UNCHANGED <<fnvars, ret, seed, op, U0, t0, h, nbiter, k,
                   k1, k2, k3, k4, Us, draws, Uiter>>

\* NextIter looping while i <= nbiter.
NextIterInclusive ==
    /\ pc = "iter"
    /\ IF i <= nbiter
       THEN pc' = "k1" /\ Uiter' = Ucouchek
       ELSE pc' = "store" /\ Uiter' = Uiter
    /\ UNCHANGED <<fnvars, ret, seed, op, U0, t0, h, nbiter, k, i, Ucouchek,
                   k1, k2, k3, k4, Us, calls, draws>>

\* NextIter looping until i = nbiter.
NextIterUntilEqual ==
    /\ pc = "iter"
    /\ IF i # nbiter
       THEN pc' = "k1" /\ Uiter' = Ucouchek
       ELSE pc' = "store" /\ Uiter' = Uiter
    /\ UNCHANGED <<fnvars, ret, seed, op, U0, t0, h, nbiter, k, i, Ucouchek,
                   k1, k2, k3, k4, Us, calls, draws>>

\* for i in range(nbiter): an empty range when nbiter <= 0
NextIter ==
    /\ pc = "iter"
    /\ IF i < nbiter
       THEN pc' = "k1" /\ Uiter' = Ucouchek
       ELSE pc' = "store" /\ Uiter' = Uiter
    /\ UNCHANGED <<fnvars, ret, seed, op, U0, t0, h, nbiter, k, i, Ucouchek,
                   k1, k2, k3, k4, Us, calls, draws>>

\* The value h * f(t, U) of a stage, the generator standing at draw q0.
Stage(t, U, q0) == Scale(h, Apply(op, t, U, seed, q0))

StageK1 ==
    /\ pc = "k1"
    /\ k1' = Stage(t0, Ucouchek, draws)
    /\ calls' = calls + 1
    /\ draws' = draws + OpDraws(op, Ucouchek)
    /\ pc' = "k2"
    /\ UNCHANGED <<fnvars, ret, seed, op, U0, t0, h, nbiter, k, i, Ucouchek,
                   k2, k3, k4, Us, Uiter>>

StageK2 ==
    /\ pc = "k2"
    /\ k2' = Stage(Add(t0, Div(h, Z(2))), MatAdd(Ucouchek, MatDiv(k1, Z(2))), draws)
    /\ calls' = calls + 1
    /\ draws' = draws + OpDraws(op, Ucouchek)
    /\ pc' = "k3"
    /\ UNCHANGED <<fnvars, ret, seed, op, U0, t0, h, nbiter, k, i, Ucouchek,
                   k1, k3, k4, Us, Uiter>>

\* StageK3 reading k1 where the source reads k2.
StageK3FromK1 ==
    /\ pc = "k3"
    /\ k3' = Stage(Add(t0, Div(h, Z(2))), MatAdd(Ucouchek, MatDiv(k1, Z(2))), draws)
    /\ calls' = calls + 1
    /\ draws' = draws + OpDraws(op, Ucouchek)
    /\ pc' = "k4"
    /\ UNCHANGED <<fnvars, ret, seed, op, U0, t0, h, nbiter, k, i, Ucouchek,
                   k1, k2, k4, Us, Uiter>>

StageK3 ==
    /\ pc = "k3"
    /\ k3' = Stage(Add(t0, Div(h, Z(2))), MatAdd(Ucouchek, MatDiv(k2, Z(2))), draws)
    /\ calls' = calls + 1
    /\ draws' = draws + OpDraws(op, Ucouchek)
    /\ pc' = "k4"
    /\ UNCHANGED <<fnvars, ret, seed, op, U0, t0, h, nbiter, k, i, Ucouchek,
                   k1, k2, k4, Us, Uiter>>

StageK4 ==
    /\ pc = "k4"
    /\ k4' = Stage(Add(t0, h), MatAdd(Ucouchek, k3), draws)
    /\ calls' = calls + 1
    /\ draws' = draws + OpDraws(op, Ucouchek)
    /\ pc' = "commit"
    /\ UNCHANGED <<fnvars, ret, seed, op, U0, t0, h, nbiter, k, i, Ucouchek,
                   k1, k2, k3, Us, Uiter>>

\* Combine with the increment subtracted.
CombineMinus(U, s1, s2, s3, s4) ==
    MatAdd(U, Scale(Div(Z(-1), Z(6)),
                    MatAdd(MatAdd(MatAdd(s1, Scale(Z(2), s2)), Scale(Z(2), s3)), s4)))

\* U + (1 / 6) * (k1 + 2 * k2 + 2 * k3 + k4)
Combine(U, s1, s2, s3, s4) ==
    MatAdd(U, Scale(Div(Z(1), Z(6)),
                    MatAdd(MatAdd(MatAdd(s1, Scale(Z(2), s2)), Scale(Z(2), s3)), s4)))

\* Commit leaving the loop after the first iteration.
CommitBreak ==
    /\ pc = "commit"
    /\ Ucouchek' = Combine(Ucouchek, k1, k2, k3, k4)
    /\ i' = nbiter
    /\ pc' = "iter"
    /\ UNCHANGED <<fnvars, ret, seed, op, U0, t0, h, nbiter, k,
                   k1, k2, k3, k4, Us, calls, draws, Uiter>>

\* One iteration of the loop body on the field U alone, by a deterministic operator.
RK4Step(o, t, hh, U) ==
    LET s1 == Scale(hh, Apply(o, t, U, NoSeed, 0))
        s2 == Scale(hh, Apply(o, Add(t, Div(hh, Z(2))), MatAdd(U, MatDiv(s1, Z(2))), NoSeed, 0))
        s3 == Scale(hh, Apply(o, Add(t, Div(hh, Z(2))), MatAdd(U, MatDiv(s2, Z(2))), NoSeed, 0))
        s4 == Scale(hh, Apply(o, Add(t, hh), MatAdd(U, s3), NoSeed, 0))
    IN Combine(U, s1, s2, s3, s4)

RECURSIVE RK4Field(_, _, _, _, _)
\* n iterations of the loop body on the field U alone.
RK4Field(o, t, hh, U, n) ==
    IF n <= 0 THEN U ELSE RK4Field(o, t, hh, RK4Step(o, t, hh, U), n - 1)

Commit ==
    /\ pc = "commit"
    /\ Ucouchek' = Combine(Ucouchek, k1, k2, k3, k4)
    /\ i' = i + 1
    /\ pc' = "iter"
    /\ UNCHANGED <<fnvars, ret, seed, op, U0, t0, h, nbiter, k,
                   k1, k2, k3, k4, Us, calls, draws, Uiter>>

\* Us[:, :, k] = Ucouchek
Store ==
    /\ pc = "store"
    /\ Us' = [Us EXCEPT !.ch[k] = Ucouchek]
    /\ k' = k + 1
    /\ pc' = "channel"
    /\ UNCHANGED <<fnvars, ret, seed, op, U0, t0, h, nbiter, i, Ucouchek,
                   k1, k2, k3, k4, calls, draws, Uiter>>

\* return Us
Return ==
    /\ pc = "channel"
    /\ k >= NbChannels
    /\ ret' = [status |-> "returned", val |-> Us]
    /\ pc' = "done"
    /\ UNCHANGED <<fnvars, seed, op, U0, t0, h, nbiter, k, i, Ucouchek,
                   k1, k2, k3, k4, Us, calls, draws, Uiter>>

Next ==
    \/ Enter
    \/ NextChannel
    \/ NextIter
    \/ StageK1
    \/ StageK2
    \/ StageK3
    \/ StageK4
    \/ Commit
    \/ Store
    \/ Return

Spec == Init /\ [][Next]_vars

\* The program is sequential: a run that can take a step takes it.
LiveSpec == LiveInit /\ [][Next]_vars /\ WF_vars(Next)

PeakSpec == PeakInit /\ [][Next]_vars

---------------------------------------------------------------------------
\* Properties of single calls (FnSpec).

Rows(A) == 0..(A.r - 1)
Cols(A) == 0..(A.c - 1)
\* A is an array of exactly r rows and c columns.
HasShape(A, r, c) ==
    /\ A.err = "none"
    /\ A.r = r /\ A.c = c
    /\ DOMAIN A.v = 0..(r - 1)
    /\ \A a \in 0..(r - 1) : DOMAIN A.v[a] = 0..(c - 1)

\* C1: completion(U) of an L x C field is the (L+2) x (C+2) field whose interior is
\* U, whose border rows and columns copy U's outermost rows and columns, and whose
\* corners are U's corners.
C1_BorderReplication ==
    (fn = "completion" /\ ret.status # "pending") =>
        LET U == argU
            P == ret.val
            L == U.r
            C == U.c
        IN /\ ret.status = "returned"
           /\ HasShape(P, L + 2, C + 2)
           /\ \A a \in Rows(U), b \in Cols(U) : P.v[a + 1][b + 1] = U.v[a][b]
           /\ \A b \in Cols(U) : P.v[0][b + 1] = U.v[0][b] /\ P.v[L + 1][b + 1] = U.v[L - 1][b]
           /\ \A a \in Rows(U) : P.v[a + 1][0] = U.v[a][0] /\ P.v[a + 1][C + 1] = U.v[a][C - 1]
           /\ P.v[0][0] = U.v[0][0]
           /\ P.v[0][C + 1] = U.v[0][C - 1]
           /\ P.v[L + 1][0] = U.v[L - 1][0]
           /\ P.v[L + 1][C + 1] = U.v[L - 1][C - 1]

\* completion has returned on a 2 x 2 field whose columns differ and whose rows differ.
C1_Witness ==
    /\ fn = "completion"
    /\ ret.status = "returned"
    /\ argU.r = 2 /\ argU.c = 2
    /\ argU.v[0][0] # argU.v[0][1]
    /\ argU.v[0][0] # argU.v[1][0]

\* The entry (a, b) the stencil table gives for each builder.
TableEntry(b, a, j) ==
    CASE b = "Dmat" ->
            IF a = j THEN Z(1) ELSE IF a + 1 = j THEN Z(-2) ELSE IF a + 2 = j THEN Z(1) ELSE Z(0)
      [] b = "Dgrad" ->
            IF a = j THEN Q(-1, 2) ELSE IF a + 2 = j THEN Q(1, 2) ELSE Z(0)
      [] b = "Dluminosite" ->
            IF a = j THEN Z(-5) ELSE IF a + 2 = j THEN Z(12) ELSE Z(0)

\* C2: for n >= 1, Dmat(n), Dgrad(n) and Dluminosite(n) return an n x (n+2) matrix
\* with the table's entries on the three diagonals and 0 elsewhere.
C2_StencilEntries ==
    (fn \in {"Dmat", "Dgrad", "Dluminosite"} /\ argN >= 1 /\ ret.status # "pending") =>
        /\ ret.status = "returned"
        /\ HasShape(ret.val, argN, argN + 2)
        /\ \A a \in 0..(argN - 1), j \in 0..(argN + 1) :
               ret.val.v[a][j] = TableEntry(fn, a, j)

\* Dmat(3) has returned.
C2_Witness == fn = "Dmat" /\ argN = 3 /\ ret.status = "returned"

\* C3: every operator returns a field of the shape of its argument, the degenerate
\* shapes 1 x C, L x 1 and 1 x 1 included.
C3_ShapePreserved ==
    (fn \in Operators /\ ret.status # "pending") =>
        /\ ret.status = "returned"
        /\ HasShape(ret.val, argU.r, argU.c)

\* The gradient-norm operator has returned on a field of one row and two columns.
C3_Witness ==
    /\ fn = "fgrad"
    /\ ret.status = "returned"
    /\ argU.r = 1 /\ argU.c = 2

\* C7 as claimed: a builder called with n <= 0 fails instead of returning a matrix.
C7_Claimed ==
    (fn \in Builders /\ argN <= 0 /\ ret.status # "pending") =>
        ret.status = "raised"

\* C7 amended: a builder called with n < 0 fails with numpy's ValueError; called
\* with n = 0 it returns the empty matrix of 0 rows and 2 columns.
C7_BuilderNonPositive ==
    (fn \in Builders /\ ret.status # "pending") =>
        /\ argN < 0 => (ret.status = "raised" /\ ret.val.err = "ValueError")
        /\ argN = 0 => (ret.status = "returned" /\ HasShape(ret.val, 0, 2))

\* Dgrad(0) has returned.
C7_Witness == fn = "Dgrad" /\ argN = 0 /\ ret.status = "returned"

---------------------------------------------------------------------------
\* Properties of the integrator (Spec, LiveSpec, PeakSpec).

StagePcs == {"k1", "k2", "k3", "k4", "commit"}
Channels == 0..(NbChannels - 1)
SameShape(A, B) == HasShape(A, B.r, B.c)
SameCells(A, B) == \A a \in Rows(B), b \in Cols(B) : A.v[a][b] = B.v[a][b]

\* C4: with nbiter = 0 the integrator makes no operator call and returns an image
\* equal to U0 in shape and in every cell.
C4_ZeroIterations ==
    (nbiter = 0) =>
        /\ pc \notin StagePcs
        /\ calls = 0
        /\ draws = 0
        /\ pc = "done" =>
              /\ ret.status = "returned"
              /\ ret.val.l = U0.l /\ ret.val.c = U0.c /\ ret.val.d = U0.d
              /\ \A kk \in Channels :
                     SameShape(ret.val.ch[kk], U0.ch[kk]) /\ SameCells(ret.val.ch[kk], U0.ch[kk])

\* A run with nbiter = 0 on a 2 x 2 image has returned.
C4_Witness == nbiter = 0 /\ pc = "done" /\ U0.l = 2 /\ U0.c = 2 /\ op = "flaplace"

\* C5: for a deterministic operator, channel k of the image returned is the result
\* of nbiter RK4 steps on the field U0[:, :, k] alone, whatever the other channels hold.
C5_ChannelIndependence ==
    (pc = "done" /\ op # "fPdeGalles") =>
        \A kk \in Channels : ret.val.ch[kk] = RK4Field(op, t0, h, U0.ch[kk], nbiter)

\* A two-iteration diffusion run has returned on an image whose channels differ.
C5_Witness ==
    /\ pc = "done"
    /\ op = "f"
    /\ nbiter = 2
    /\ IsFinite(h)
    /\ U0.l = 2 /\ U0.c = 2
    /\ U0.ch[0] # U0.ch[1]
    /\ U0.ch[1] = U0.ch[2]
    /\ ret.val.ch[0] # ret.val.ch[1]

\* The cell of F that exceeds every other cell, and the four cells next to a cell.
PeakCell(F) ==
    CHOOSE p \in Rows(F) \X Cols(F) :
        \A q \in (Rows(F) \X Cols(F)) \ {p} : Less(F.v[q[1]][q[2]], F.v[p[1]][p[2]])
Neighbours(p) ==
    {<<p[1] - 1, p[2]>>, <<p[1] + 1, p[2]>>, <<p[1], p[2] - 1>>, <<p[1], p[2] + 1>>}

\* C6: one iteration of the diffusion operator with a small positive h on a field
\* with one isolated maximum over a constant lower background strictly lowers the
\* maximum and strictly raises its four neighbours.
C6_PeakFlattens ==
    (pc = "done") =>
        \A kk \in Channels :
            LET F == U0.ch[kk]
                G == ret.val.ch[kk]
                p == PeakCell(F)
            IN /\ Less(G.v[p[1]][p[2]], F.v[p[1]][p[2]])
               /\ \A q \in Neighbours(p) : Less(F.v[q[1]][q[2]], G.v[q[1]][q[2]])

\* The 5 x 5 field of zeros with centre 100, h = 0.01, nbiter = 1: the run has
\* returned with the centre below 100 and the four cells next to it above 0.
C6_Witness ==
    /\ pc = "done"
    /\ op = "f"
    /\ h = Q(1, 100)
    /\ nbiter = 1
    /\ U0.ch[0] = PeakField(0, 100, 2, 2)
    /\ Less(ret.val.ch[0].v[2][2], Z(100))
    /\ \A q \in Neighbours(<<2, 2>>) : Less(Z(0), ret.val.ch[0].v[q[1]][q[2]])

AllNonFinite(A) == \A a \in Rows(A), b \in Cols(A) : ~IsFinite(A.v[a][b])

\* C8 as claimed: with nbiter < 0 or a non-finite h the integrator returns no image.
C8_Claimed ==
    (nbiter < 0 \/ ~IsFinite(h)) => ret.status # "returned"

\* C8 amended: the integrator checks neither parameter.  With nbiter < 0 it makes no
\* operator call and returns an image equal to U0; with a non-finite h it returns an
\* image of U0's shape, every cell of which is non-finite when nbiter >= 1.
C8_NoParameterCheck ==
    /\ ret.status # "raised"
    /\ (nbiter < 0) => (pc \notin StagePcs /\ calls = 0)
    /\ (pc = "done" /\ nbiter < 0) =>
          /\ ret.status = "returned"
          /\ \A kk \in Channels :
                 SameShape(ret.val.ch[kk], U0.ch[kk]) /\ SameCells(ret.val.ch[kk], U0.ch[kk])
    /\ (pc = "done" /\ ~IsFinite(h)) =>
          /\ ret.status = "returned"
          /\ \A kk \in Channels :
                 /\ SameShape(ret.val.ch[kk], U0.ch[kk])
                 /\ (nbiter >= 1) => AllNonFinite(ret.val.ch[kk])

\* A run with nbiter = -1 has returned.
C8_Witness == pc = "done" /\ nbiter = -1 /\ ret.status = "returned" /\ IsFinite(h)

\* Stages of the current iteration already computed.
StagesDone ==
    CASE pc = "k2" -> 1
      [] pc = "k3" -> 2
      [] pc = "k4" -> 3
      [] pc = "commit" -> 4
      [] OTHER -> 0
\* The draw at which the generator stood when stage s + 1 of the iteration began.
StageDraw(s) == draws - (StagesDone - s) * OpDraws(op, Uiter)
Half(x) == Mul(x, Q(1, 2))

\* Each stage, once computed, is h times the operator on the field the iteration
\* began with, advanced by the stage before it.
C9_Stages ==
    /\ (pc \in StagePcs) => Ucouchek = Uiter
    /\ (pc = "k2") =>
          k1 = Scale(h, Apply(op, t0, Uiter, seed, StageDraw(0)))
    /\ (pc = "k3") =>
          k2 = Scale(h, Apply(op, Add(t0, Half(h)),
                              MatAdd(Uiter, Scale(Q(1, 2), k1)), seed, StageDraw(1)))
    /\ (pc = "k4") =>
          k3 = Scale(h, Apply(op, Add(t0, Half(h)),
                              MatAdd(Uiter, Scale(Q(1, 2), k2)), seed, StageDraw(2)))
    /\ (pc = "commit") =>
          k4 = Scale(h, Apply(op, Add(t0, h), MatAdd(Uiter, k3), seed, StageDraw(3)))

\* A stage keeps its value until the commit, the field is not changed before the
\* commit, the commit adds the weighted sum, and U0 is never changed.
C9_Step ==
    /\ U0' = U0
    /\ (pc \in {"k1", "k2", "k3", "k4"}) => Ucouchek' = Ucouchek
    /\ (pc \in {"k2", "k3", "k4", "commit"}) => k1' = k1
    /\ (pc \in {"k3", "k4", "commit"}) => k2' = k2
    /\ (pc \in {"k4", "commit"}) => k3' = k3
    /\ (pc = "commit") =>
          /\ k4' = k4
          /\ Ucouchek' = MatAdd(Uiter,
                                Scale(Q(1, 6), MatAdd(k1, MatAdd(Scale(Z(2), k2),
                                                      MatAdd(Scale(Z(2), k3), k4)))))

\* C9: an iteration computes k1 = h*Op(t, U), k2 = h*Op(t + h/2, U + k1/2),
\* k3 = h*Op(t + h/2, U + k2/2), k4 = h*Op(t + h, U + k3) from the field U held when
\* the iteration began, commits U + (1/6)(k1 + 2 k2 + 2 k3 + k4), and no step
\* changes the input image U0.
C9_RK4Iteration == []C9_Stages /\ [][C9_Step]_vars

\* An iteration of the brightness operator is about to commit on a 1 x 2 field, its
\* four stages all different.
C9_Witness ==
    /\ pc = "commit"
    /\ op = "fluminosite"
    /\ IsFinite(h)
    /\ Uiter.r = 1 /\ Uiter.c = 2
    /\ k1 # k2 /\ k2 # k3 /\ k3 # k4

C10_Order ==
    /\ (pc = "start") => (pc' = "channel" /\ k' = 0)
    /\ (pc = "channel") =>
          \/ k < NbChannels /\ pc' = "iter" /\ k' = k /\ i' = 0 /\ calls' = 0
          \/ k = NbChannels /\ pc' = "done"
    /\ (pc = "iter") =>
          /\ k' = k /\ i' = i /\ calls' = calls
          /\ \/ i < nbiter /\ pc' = "k1"
             \/ i >= nbiter /\ pc' = "store"
    /\ (pc = "k1") => (pc' = "k2" /\ calls' = calls + 1 /\ k' = k /\ i' = i)
    /\ (pc = "k2") => (pc' = "k3" /\ calls' = calls + 1 /\ k' = k /\ i' = i)
    /\ (pc = "k3") => (pc' = "k4" /\ calls' = calls + 1 /\ k' = k /\ i' = i)
    /\ (pc = "k4") => (pc' = "commit" /\ calls' = calls + 1 /\ k' = k /\ i' = i)
    /\ (pc = "commit") => (pc' = "iter" /\ calls' = calls /\ k' = k /\ i' = i + 1)
    /\ (pc = "store") => (pc' = "channel" /\ k' = k + 1)

C10_Count ==
    (nbiter >= 0) =>
        /\ calls = 4 * i + StagesDone
        /\ i <= nbiter
        /\ (pc = "store") => (i = nbiter /\ calls = 4 * nbiter)
        /\ (pc = "done") => k = NbChannels

\* C10: for nbiter >= 0 the run terminates; each channel gets exactly nbiter
\* iterations, each going through k1, k2, k3, k4, commit in that order (4 * nbiter
\* operator calls); channels are taken in the order 0, 1, 2, and a channel begins
\* only after the previous channel's last commit was stored.
C10_ExactIterations ==
    /\ (nbiter >= 0) => <>(pc = "done")
    /\ []C10_Count
    /\ [][C10_Order]_vars

\* A run of two iterations per channel has stored its last channel.
C10_Witness == pc = "done" /\ nbiter = 2 /\ k = NbChannels /\ i = 2 /\ calls = 8

===========================================================================
